---- MODULE Spec2Model ----
(***************************************************************************)
(* A model of mmseg-rs (src/src/lib.rs): the MMSEG word segmenter.         *)
(*                                                                         *)
(* Characters are Unicode code points (integers), strings are sequences of *)
(* code points.  Cursors keep the source's 0-based values: the character   *)
(* at cursor p of chars is chars[p + 1], and the slice chars[a..b] is      *)
(* SubSeq(chars, a + 1, b).                                                *)
(*                                                                         *)
(* f32 scores.  The ranking rules only COMPARE f32 scores, so a score is   *)
(* kept as an exact fraction [num, den] and compared exactly:              *)
(*   - avg_word_len  is total / count;                                     *)
(*   - stddev        carries the variance (sqrt is increasing, so the      *)
(*                   order of the square roots is the order of these);     *)
(*   - word_freq     carries the product of the frequencies (ln is         *)
(*                   increasing and ln a + ln b = ln ab; a product of 0    *)
(*                   stands for a sum that holds ln 0 = -inf).             *)
(* For words of at most 5 characters and the frequencies of Freqs the f32  *)
(* values computed by the source order exactly as these fractions do       *)
(* (rule 3 only ever compares chunks with equal total and equal count);    *)
(* the words of this model have at most 3 characters.  No score is NaN,    *)
(* so partial_cmp never takes its unwrap_or(Equal) branch.                 *)
(***************************************************************************)
EXTENDS Integers, Sequences, FiniteSets, TLC

VARIABLES
    words,          \* MMSeg.words: the dictionary, text -> frequency
    max_word_len,   \* MMSeg.max_word_len
    chars,          \* cut_internal: the decoded text
    pos,            \* cut_internal: the cursor
    ret,            \* cut_internal: the tokens pushed so far
    simple,         \* cut_internal: TRUE for cut_simple, FALSE for cut
    pc              \* "new", "loaded", "cut", "done" or "panicked"

vars == <<words, max_word_len, chars, pos, ret, simple, pc>>

----------------------------------------------------------------------------
(* Bounds and alphabets *)

\* The longest text of the bounded family of inputs.
MaxTextLen == 4

\* Two Chinese characters: the first and the last code point of the range.
CA == 19968
CB == 40869
\* An ASCII letter and a blank.
LetterA == 97
Blank == 32

TextAlphabet == {CA, CB, LetterA, Blank}

\* Unigram frequencies a character dictionary line may carry.
Freqs == {1, 2}

\* The scenario characters: yan jiu sheng ming lai yuan.
Yan == 30740
Jiu == 31350
Sheng == 29983
Ming == 21629
Lai == 26469
Yuan == 28304

----------------------------------------------------------------------------
(* Character classes *)

is_chinese_char(chr) == chr >= 19968 /\ chr < 40870

is_ascii_alphanumeric(chr) ==
    \/ (chr >= 48 /\ chr <= 57)
    \/ (chr >= 65 /\ chr <= 90)
    \/ (chr >= 97 /\ chr <= 122)

----------------------------------------------------------------------------
(* Dictionary loading *)

Insert(map, key, value) ==
    [k \in (DOMAIN map) \cup {key} |-> IF k = key THEN value ELSE map[k]]

\* One pass of the first loop of load_dict: a line is <<freq, chr>>.
RECURSIVE load_chars(_, _, _)
load_chars(lines, i, dict) ==
    IF i > Len(lines) THEN dict
    ELSE LET freq == lines[i][1]
             chr == lines[i][2]
             word_len == Len(chr)
         IN load_chars(lines, i + 1,
                [words |-> Insert(dict.words, chr, freq),
                 max_word_len |-> IF word_len > dict.max_word_len
                                  THEN word_len ELSE dict.max_word_len])

\* One pass of the second loop of load_dict: a line is <<word_len, chr>>.
RECURSIVE load_words(_, _, _)
load_words(lines, i, dict) ==
    IF i > Len(lines) THEN dict
    ELSE LET word_len == lines[i][1]
             chr == lines[i][2]
         IN load_words(lines, i + 1,
                [words |-> Insert(dict.words, chr, 0),
                 max_word_len |-> IF word_len > dict.max_word_len
                                  THEN word_len ELSE dict.max_word_len])

load_dict(dict, chars_dict, words_dict) ==
    load_words(words_dict, 1, load_chars(chars_dict, 1, dict))

----------------------------------------------------------------------------
(* Dictionary files and texts the model runs on *)

CharLineChoices(chr) == {<<>>} \cup {<< <<f, <<chr>> >> >> : f \in Freqs}

\* Word dictionary lines: three words and a one-character entry, which
\* overwrites the character's frequency with 0.
LexiconLines ==
    << <<2, <<CA, CB>> >>, <<2, <<CB, CA>> >>, <<3, <<CA, CB, CA>> >>,
       <<1, <<CA>> >> >>

SubLines(lines, S) ==
    LET Keep(i) == i \in S
        idx == SelectSeq([i \in 1..Len(lines) |-> i], Keep)
    IN [k \in 1..Len(idx) |-> lines[idx[k]]]

BoundedDictFiles ==
    {[chars_dict |-> a \o b, words_dict |-> SubLines(LexiconLines, S)] :
        a \in CharLineChoices(CA), b \in CharLineChoices(CB),
        S \in SUBSET (1..Len(LexiconLines))}

ScenarioChars == <<Yan, Jiu, Sheng, Ming, Lai, Yuan>>

ScenarioWordLines ==
    << <<2, <<Yan, Jiu>> >>, <<3, <<Yan, Jiu, Sheng>> >>,
       <<2, <<Sheng, Ming>> >>, <<2, <<Lai, Yuan>> >> >>

ScenarioDictFiles ==
    {[chars_dict |-> [i \in 1..Len(ScenarioChars) |-> <<f[i], <<ScenarioChars[i]>> >>],
      words_dict |-> ScenarioWordLines] :
        f \in [1..Len(ScenarioChars) -> Freqs]}

DictFiles == BoundedDictFiles \cup ScenarioDictFiles

RECURSIVE SeqsUpTo(_, _)
SeqsUpTo(S, n) ==
    IF n = 0 THEN {<<>>}
    ELSE LET shorter == SeqsUpTo(S, n - 1)
         IN shorter \cup {Append(s, c) : s \in shorter, c \in S}

BoundedTexts == SeqsUpTo(TextAlphabet, MaxTextLen)

\* "yan jiu sheng ming lai yuan"
S1Text == <<Yan, Jiu, Sheng, Ming, Lai, Yuan>>
\* "1988/02/29"
S2Text == <<49, 57, 56, 56, 47, 48, 50, 47, 50, 57>>
\* "this is a test"
S3Text == <<116, 104, 105, 115, 32, 105, 115, 32, 97, 32, 116, 101, 115, 116>>
\* S1Text, then ", this is a test 1988/02/29": the text of tests/test_mmseg.rs
S4Text == S1Text \o <<44, 32>> \o S3Text \o <<32>> \o S2Text
\* the neighbours of the character classes: "/09:@AZ[`az{", U+4DFF, U+9FA6
EdgeText == <<47, 48, 57, 58, 64, 65, 90, 91, 96, 97, 122, 123, 19967, 40870>>

ScenarioTexts == {S1Text, S2Text, S3Text, S4Text, EdgeText}

Texts == BoundedTexts \cup ScenarioTexts

----------------------------------------------------------------------------
(* Words and chunks *)

Word(text, freq, len) == [text |-> text, freq |-> freq, len |-> len]

\* A variant of EmptyWord: the placeholder has len 0.
EmptyWordLen0 == Word(<<>>, 0, 0)

\* The word get_match_chinese_words places when nothing matches.
EmptyWord == Word(<<>>, 0, 1)

RECURSIVE SumLen(_, _)
SumLen(chunk, i) ==
    IF i > Len(chunk) THEN 0 ELSE chunk[i].len + SumLen(chunk, i + 1)

total_word_len(chunk) == SumLen(chunk, 1)

Frac(num, den) == [num |-> num, den |-> den]

\* A variant of avg_word_len: the total is not divided by the word count.
avg_word_len_total(chunk) == Frac(total_word_len(chunk), 1)

avg_word_len(chunk) == Frac(total_word_len(chunk), Len(chunk))

RECURSIVE SumSq(_, _)
SumSq(chunk, i) ==
    IF i > Len(chunk) THEN 0
    ELSE chunk[i].len * chunk[i].len + SumSq(chunk, i + 1)

\* The variance: sum (len - avg)^2 / n = (n * sum len^2 - total^2) / n^2.
stddev(chunk) ==
    LET n == Len(chunk)
        t == total_word_len(chunk)
    IN Frac(n * SumSq(chunk, 1) - t * t, n * n)

RECURSIVE ProdFreq(_, _)
ProdFreq(chunk, i) ==
    IF i > Len(chunk) THEN 1
    ELSE (IF chunk[i].len = 1 THEN chunk[i].freq ELSE 1) * ProdFreq(chunk, i + 1)

\* exp of the sum of ln(freq) over the words of length 1.
word_freq(chunk) == Frac(ProdFreq(chunk, 1), 1)

IntCmp(a, b) == IF a < b THEN "Less" ELSE IF a > b THEN "Greater" ELSE "Equal"

\* The order of two fractions with positive denominators.
FracCmp(x, y) == IntCmp(x.num * y.den, y.num * x.den)

----------------------------------------------------------------------------
(* The matcher *)

\* The while loop of get_match_chinese_words, from cursor p and count index.
RECURSIVE match_loop(_, _, _, _, _)
match_loop(cs, original_pos, p, index, found) ==
    IF ~(p < Len(cs)) THEN found
    ELSE IF index >= max_word_len THEN found
    ELSE IF ~is_chinese_char(cs[p + 1]) THEN found
    ELSE LET text == SubSeq(cs, original_pos + 1, p + 1)
         IN match_loop(cs, original_pos, p + 1, index + 1,
                IF text \in DOMAIN words
                THEN Append(found, Word(text, words[text], Len(text)))
                ELSE found)

get_match_chinese_words(cs, p) ==
    LET found == match_loop(cs, p, p, 0, <<>>)
    IN IF found = <<>> THEN <<EmptyWord>> ELSE found

----------------------------------------------------------------------------
(* The chunk enumerators *)

RECURSIVE simple_loop(_, _)
simple_loop(ws, i) ==
    IF i > Len(ws) THEN <<>>
    ELSE IF ws[i].text = <<>> THEN simple_loop(ws, i + 1)
    ELSE << <<ws[i]>> >> \o simple_loop(ws, i + 1)

create_simple_chunks(cs, p) == simple_loop(get_match_chinese_words(cs, p), 1)

\* for word3 in words3
RECURSIVE chunks_loop3(_, _, _, _)
chunks_loop3(word1, word2, words3, k) ==
    IF k > Len(words3) THEN <<>>
    ELSE (IF words3[k].text = <<>>
          THEN << <<word1, word2>> >>
          ELSE << <<word1, word2, words3[k]>> >>)
         \o chunks_loop3(word1, word2, words3, k + 1)

\* for word2 in words2, entered with the cursor p after word1
RECURSIVE chunks_loop2(_, _, _, _, _)
chunks_loop2(cs, p, word1, words2, j) ==
    IF j > Len(words2) THEN <<>>
    ELSE LET word2 == words2[j]
             p2 == p + word2.len
         IN (IF p2 < Len(cs)
             THEN chunks_loop3(word1, word2, get_match_chinese_words(cs, p2), 1)
             ELSE IF p2 = Len(cs)
             THEN << <<word1, word2>> >>
             ELSE <<>>)
            \o chunks_loop2(cs, p, word1, words2, j + 1)

\* for word1 in words1, entered with the cursor p of create_chunks
RECURSIVE chunks_loop1(_, _, _, _)
chunks_loop1(cs, p, words1, i) ==
    IF i > Len(words1) THEN <<>>
    ELSE LET word1 == words1[i]
             p1 == p + word1.len
         IN (IF p1 < Len(cs)
             THEN chunks_loop2(cs, p1, word1, get_match_chinese_words(cs, p1), 1)
             ELSE IF p1 = Len(cs)
             THEN << <<word1>> >>
             ELSE <<>>)
            \o chunks_loop1(cs, p, words1, i + 1)

\* A variant of create_chunks: a chunk that holds the placeholder is not pushed.
create_chunks_no_empty(cs, p) ==
    LET NoEmpty(chunk) == \A i \in 1..Len(chunk) : chunk[i].text # <<>>
    IN SelectSeq(chunks_loop1(cs, p, get_match_chinese_words(cs, p), 1), NoEmpty)

create_chunks(cs, p) == chunks_loop1(cs, p, get_match_chinese_words(cs, p), 1)

\* Every value the cursor takes inside create_chunks called at p.
chunk_cursors(cs, p) ==
    LET words1 == get_match_chinese_words(cs, p)
        after1 == {p + words1[i].len : i \in 1..Len(words1)}
        Words2(p1) == get_match_chinese_words(cs, p1)
        after2 == UNION {{p1 + Words2(p1)[j].len : j \in 1..Len(Words2(p1))} :
                            p1 \in {q \in after1 : q < Len(cs)}}
    IN {p} \cup after1 \cup after2

----------------------------------------------------------------------------
(* The ranker *)

\* A variant of compare: rule 3 compares a.stddev() with b.stddev(), which
\* keeps the largest stddev.
compare_largest_stddev(rule, a, b) ==
    CASE rule = 1 -> IntCmp(total_word_len(a), total_word_len(b))
      [] rule = 2 -> FracCmp(avg_word_len(a), avg_word_len(b))
      [] rule = 3 -> FracCmp(stddev(a), stddev(b))
      [] rule = 4 -> FracCmp(word_freq(a), word_freq(b))

\* The closures get_chinese_words_complex hands to take_high_test, by rule.
compare(rule, a, b) ==
    CASE rule = 1 -> IntCmp(total_word_len(a), total_word_len(b))
      [] rule = 2 -> FracCmp(avg_word_len(a), avg_word_len(b))
      [] rule = 3 -> FracCmp(stddev(b), stddev(a))
      [] rule = 4 -> FracCmp(word_freq(a), word_freq(b))

\* chunks.swap(i, j), both 0-based
Swap(chunks, i, j) ==
    [k \in 1..Len(chunks) |->
        IF k = i + 1 THEN chunks[j + 1]
        ELSE IF k = j + 1 THEN chunks[i + 1]
        ELSE chunks[k]]

\* A variant of high_loop: i is not reset when chunks[j] is greater.
RECURSIVE high_loop_keep_i(_, _, _, _)
high_loop_keep_i(chunks, i, j, rule) ==
    IF j >= Len(chunks) THEN [chunks |-> chunks, i |-> i]
    ELSE LET rlt == compare(rule, chunks[j + 1], chunks[1])
         IN IF rlt # "Less"
            THEN high_loop_keep_i(Swap(chunks, i, j), i + 1, j + 1, rule)
            ELSE high_loop_keep_i(chunks, i, j + 1, rule)

\* for j in 1..chunks.len(), with i and j 0-based
RECURSIVE high_loop(_, _, _, _)
high_loop(chunks, i, j, rule) ==
    IF j >= Len(chunks) THEN [chunks |-> chunks, i |-> i]
    ELSE LET rlt == compare(rule, chunks[j + 1], chunks[1])
             i1 == IF rlt = "Greater" THEN 0 ELSE i
         IN IF rlt # "Less"
            THEN high_loop(Swap(chunks, i1, j), i1 + 1, j + 1, rule)
            ELSE high_loop(chunks, i1, j + 1, rule)

\* &mut chunks[0..i]: the slice, or a panic when i is past the end.
take_high_test(chunks, rule) ==
    LET r == high_loop(chunks, 1, 1, rule)
    IN IF r.i > Len(chunks)
       THEN [panic |-> TRUE, chunks |-> <<>>]
       ELSE [panic |-> FALSE, chunks |-> SubSeq(r.chunks, 1, r.i)]

\* The chunks left after rules 1..rule (rule 0: the enumeration itself).
RECURSIVE cascade(_, _)
cascade(chunks, rule) ==
    IF rule = 0 THEN [panic |-> FALSE, chunks |-> chunks]
    ELSE LET before == cascade(chunks, rule - 1)
         IN IF before.panic THEN before
            ELSE take_high_test(before.chunks, rule)

----------------------------------------------------------------------------
(* One token *)

Result(token, p, panic) == [token |-> token, pos |-> p, panic |-> panic]

\* A variant of max_by_key: the first of the elements with the smallest key.
min_by_key(chunks) ==
    LET best == CHOOSE i \in 1..Len(chunks) :
                    /\ \A k \in 1..Len(chunks) :
                           total_word_len(chunks[k]) >= total_word_len(chunks[i])
                    /\ \A k \in 1..(i - 1) :
                           total_word_len(chunks[k]) > total_word_len(chunks[i])
    IN chunks[best]

\* max_by_key: the last of the elements with the largest key.
max_by_key(chunks) ==
    LET best == CHOOSE i \in 1..Len(chunks) :
                    /\ \A k \in 1..Len(chunks) :
                           total_word_len(chunks[k]) <= total_word_len(chunks[i])
                    /\ \A k \in (i + 1)..Len(chunks) :
                           total_word_len(chunks[k]) < total_word_len(chunks[i])
    IN chunks[best]

\* A variant of emit_words: the cursor advances by one per word.
RECURSIVE emit_words_by_one(_, _, _, _)
emit_words_by_one(chunk, n, k, acc) ==
    IF k > n \/ k > Len(chunk) THEN acc
    ELSE IF chunk[k].text = <<>> THEN emit_words_by_one(chunk, n, k + 1, acc)
    ELSE emit_words_by_one(chunk, n, k + 1,
            Result(acc.token \o chunk[k].text, acc.pos + 1, FALSE))

\* for word in chunk (n words of it): skip an empty text, else advance and push.
RECURSIVE emit_words(_, _, _, _)
emit_words(chunk, n, k, acc) ==
    IF k > n \/ k > Len(chunk) THEN acc
    ELSE IF chunk[k].text = <<>> THEN emit_words(chunk, n, k + 1, acc)
    ELSE emit_words(chunk, n, k + 1,
            Result(acc.token \o chunk[k].text, acc.pos + chunk[k].len, FALSE))

get_chinese_words_simple(cs, p) ==
    LET chunks == create_simple_chunks(cs, p)
    IN IF chunks = <<>> THEN Result(<<>>, p, FALSE)
       ELSE LET chunk == max_by_key(chunks)
            IN emit_words(chunk, Len(chunk), 1, Result(<<>>, p, FALSE))

get_chinese_words_complex(cs, p) ==
    LET ranked == cascade(create_chunks(cs, p), 4)
    IN IF ranked.panic THEN Result(<<>>, p, TRUE)
       ELSE IF ranked.chunks = <<>> THEN Result(<<>>, p, FALSE)
       ELSE emit_words(ranked.chunks[1], 1, 1, Result(<<>>, p, FALSE))

\* while *pos < len: stop at an alphanumeric or Chinese character
RECURSIVE skip_others(_, _)
skip_others(cs, p) ==
    IF ~(p < Len(cs)) THEN p
    ELSE IF is_ascii_alphanumeric(cs[p + 1]) \/ is_chinese_char(cs[p + 1]) THEN p
    ELSE skip_others(cs, p + 1)

\* while *pos < len: stop at a character that is not alphanumeric
RECURSIVE skip_alphanumerics(_, _)
skip_alphanumerics(cs, p) ==
    IF ~(p < Len(cs)) THEN p
    ELSE IF ~is_ascii_alphanumeric(cs[p + 1]) THEN p
    ELSE skip_alphanumerics(cs, p + 1)

\* A variant of get_ascii_words: end is read after the trailing skip.
get_ascii_words_late_end(cs, p) ==
    LET start == skip_others(cs, p)
        end == skip_others(cs, skip_alphanumerics(cs, start))
    IN Result(SubSeq(cs, start + 1, end), end, FALSE)

get_ascii_words(cs, p) ==
    LET start == skip_others(cs, p)
        end == skip_alphanumerics(cs, start)
    IN Result(SubSeq(cs, start + 1, end), skip_others(cs, end), FALSE)

\* One pass of the while loop of get_next_token, entered with p < len.
next_token_step(cs, p, smpl) ==
    IF is_chinese_char(cs[p + 1])
    THEN IF smpl THEN get_chinese_words_simple(cs, p)
         ELSE get_chinese_words_complex(cs, p)
    ELSE get_ascii_words(cs, p)

----------------------------------------------------------------------------
(* The state machine *)

\* MMSeg::new without embed-dict; no cut_internal is running.
Init ==
    /\ words = <<>>
    /\ max_word_len = 0
    /\ chars = <<>>
    /\ pos = 0
    /\ ret = <<>>
    /\ simple = FALSE
    /\ pc = "new"

LoadDict ==
    /\ pc = "new"
    /\ \E file \in DictFiles :
         LET dict == load_dict([words |-> words, max_word_len |-> max_word_len],
                               file.chars_dict, file.words_dict)
         IN /\ words' = dict.words
            /\ max_word_len' = dict.max_word_len
    /\ pc' = "loaded"
    /\ UNCHANGED <<chars, pos, ret, simple>>

\* cut_simple / cut: the head of cut_internal
CutStart ==
    /\ pc = "loaded"
    /\ \E text \in Texts, smpl \in BOOLEAN :
         /\ chars' = text
         /\ simple' = smpl
    /\ pos' = 0
    /\ ret' = <<>>
    /\ pc' = "cut"
    /\ UNCHANGED <<words, max_word_len>>

\* What one pass of get_next_token's loop leaves behind: a non-empty token is
\* returned and pushed by cut_internal, an empty one lets the loop go on.  A
\* pass that returns an empty token and does not move the cursor leaves the
\* state as it was, and the loop repeats it.
Pass(r) ==
    /\ pos' = r.pos
    /\ ret' = IF ~r.panic /\ Len(r.token) > 0 THEN Append(ret, r.token) ELSE ret
    /\ pc' = IF r.panic THEN "panicked" ELSE "cut"
    /\ UNCHANGED <<words, max_word_len, chars, simple>>

ChineseSimple ==
    /\ pc = "cut"
    /\ pos < Len(chars)
    /\ is_chinese_char(chars[pos + 1])
    /\ simple
    /\ Pass(get_chinese_words_simple(chars, pos))

ChineseComplex ==
    /\ pc = "cut"
    /\ pos < Len(chars)
    /\ is_chinese_char(chars[pos + 1])
    /\ ~simple
    /\ Pass(get_chinese_words_complex(chars, pos))

AsciiWords ==
    /\ pc = "cut"
    /\ pos < Len(chars)
    /\ ~is_chinese_char(chars[pos + 1])
    /\ Pass(get_ascii_words(chars, pos))

\* get_next_token returns None and cut_internal returns ret
Finish ==
    /\ pc = "cut"
    /\ ~(pos < Len(chars))
    /\ pc' = "done"
    /\ UNCHANGED <<words, max_word_len, chars, pos, ret, simple>>

Next == LoadDict \/ CutStart \/ ChineseSimple \/ ChineseComplex \/ AsciiWords \/ Finish

Spec == Init /\ [][Next]_vars

----------------------------------------------------------------------------
(* cut_internal as a function of the text, for running it on another text *)

\* The loops of cut_internal and get_next_token from cursor p.  A pass that
\* leaves the cursor and the tokens as they were repeats forever: the call
\* never returns (returned = FALSE), as when a pass panics.
RECURSIVE cut_loop(_, _, _, _)
cut_loop(cs, p, acc, smpl) ==
    IF ~(p < Len(cs)) THEN [returned |-> TRUE, ret |-> acc]
    ELSE LET r == next_token_step(cs, p, smpl)
         IN IF r.panic \/ (r.pos = p /\ Len(r.token) = 0)
            THEN [returned |-> FALSE, ret |-> acc]
            ELSE cut_loop(cs, r.pos,
                    IF Len(r.token) > 0 THEN Append(acc, r.token) ELSE acc, smpl)

cut_internal(text, smpl) == cut_loop(text, 0, <<>>, smpl)

----------------------------------------------------------------------------
(* Vocabulary of the properties *)

SetMax(S) == CHOOSE x \in S : \A y \in S : y <= x

Range(seq) == {seq[i] : i \in 1..Len(seq)}

Last(seq) == seq[Len(seq)]

\* The cursor is on a Chinese character and a pass is about to run.
AtChinese == pc = "cut" /\ pos < Len(chars) /\ is_chinese_char(chars[pos + 1])

\* The lengths k of the dictionary words chars[p..p+k]: at most max_word_len
\* characters, all of them Chinese.
DictWordLensAt(p) ==
    {k \in 1..max_word_len :
        /\ p + k <= Len(chars)
        /\ \A i \in 1..k : is_chinese_char(chars[p + i])
        /\ SubSeq(chars, p + 1, p + k) \in DOMAIN words}

\* The maximal runs of ASCII alphanumerics of cs that end at or before upto,
\* from cursor s on, left to right.
RECURSIVE RunsFrom(_, _, _)
RunsFrom(cs, s, upto) ==
    IF s >= Len(cs) THEN <<>>
    ELSE IF ~is_ascii_alphanumeric(cs[s + 1]) THEN RunsFrom(cs, s + 1, upto)
    ELSE LET e == SetMax({q \in (s + 1)..Len(cs) :
                            \A i \in (s + 1)..q : is_ascii_alphanumeric(cs[i])})
         IN IF e <= upto
            THEN <<SubSeq(cs, s + 1, e)>> \o RunsFrom(cs, e, upto)
            ELSE <<>>

IsAsciiToken(token) == is_ascii_alphanumeric(token[1])

IsChineseToken(token) == is_chinese_char(token[1])

\* Tokens i.. of ret are slices of chars[from..pos], each after the one before.
RECURSIVE OrderedSlices(_, _)
OrderedSlices(i, from) ==
    IF i > Len(ret) THEN TRUE
    ELSE \E s \in from..(pos - Len(ret[i])) :
            /\ SubSeq(chars, s + 1, s + Len(ret[i])) = ret[i]
            /\ OrderedSlices(i + 1, s + Len(ret[i]))

RECURSIVE Join(_, _)
Join(tokens, i) ==
    IF i > Len(tokens) THEN <<>>
    ELSE IF i = Len(tokens) THEN tokens[i]
    ELSE tokens[i] \o <<Blank>> \o Join(tokens, i + 1)

\* The chunks of a set with the largest total length, then of those the ones
\* with the largest average, then of those the ones with the smallest stddev.
TopTotal(S) == {c \in S : \A d \in S : total_word_len(d) <= total_word_len(c)}

TopAvg(S) == {c \in S : \A d \in S : FracCmp(avg_word_len(d), avg_word_len(c)) # "Greater"}

LowStddev(S) == {c \in S : \A d \in S : FracCmp(stddev(d), stddev(c)) # "Less"}

\* What emitting the first word of chunk c at cursor p returns.
FirstWordResult(c, p) ==
    IF c[1].text = <<>> THEN Result(<<>>, p, FALSE)
    ELSE Result(c[1].text, p + c[1].len, FALSE)

ScenarioDictLoaded ==
    DOMAIN words = {<<ScenarioChars[i]>> : i \in 1..Len(ScenarioChars)}
                   \cup {ScenarioWordLines[i][2] : i \in 1..Len(ScenarioWordLines)}

----------------------------------------------------------------------------
(* The claims *)

\* C1: every pass of get_next_token's loop strictly increases the cursor, so
\* cut and cut_simple terminate; on a Chinese character at which no
\* dictionary word begins the pass drops the character: no token, cursor + 1.
C1_CursorProgress ==
    (pc = "cut" /\ pos < Len(chars)) =>
        LET r == next_token_step(chars, pos, simple)
        IN /\ r.pos > pos
           /\ (is_chinese_char(chars[pos + 1]) /\ DictWordLensAt(pos) = {}) =>
                 (r.token = <<>> /\ r.pos = pos + 1)

\* C2: the ASCII tokens pushed so far are exactly the maximal runs of ASCII
\* alphanumerics of the text that lie before the cursor, verbatim and in
\* order (all the runs of the text once cut has returned); "1988/02/29"
\* gives 1988, 02, 29 and "this is a test" gives this, is, a, test.
C2_AsciiRuns ==
    /\ SelectSeq(ret, IsAsciiToken) = RunsFrom(chars, 0, pos)
    /\ pc = "done" => SelectSeq(ret, IsAsciiToken) = RunsFrom(chars, 0, Len(chars))
    /\ (pc = "done" /\ chars = S2Text) =>
          ret = << <<49, 57, 56, 56>>, <<48, 50>>, <<50, 57>> >>
    /\ (pc = "done" /\ chars = S3Text) =>
          ret = << <<116, 104, 105, 115>>, <<105, 115>>, <<97>>,
                   <<116, 101, 115, 116>> >>

\* A text with Chinese words and ASCII runs was cut to its end.
C2_Witness ==
    /\ pc = "done"
    /\ chars = S4Text
    /\ Len(SelectSeq(ret, IsAsciiToken)) = 7
    /\ Len(SelectSeq(ret, IsChineseToken)) > 0

\* C3: in simple mode, on a Chinese character at which a dictionary word
\* begins, the pass returns the longest dictionary word beginning there and
\* advances the cursor by its length.
C3_SimpleLongest ==
    (AtChinese /\ simple /\ DictWordLensAt(pos) # {}) =>
        LET k == SetMax(DictWordLensAt(pos))
        IN get_chinese_words_simple(chars, pos)
              = Result(SubSeq(chars, pos + 1, pos + k), pos + k, FALSE)

\* cut_simple has just pushed a word of two or more characters although a
\* shorter dictionary word begins at the same place.
C3_Witness ==
    /\ pc = "cut"
    /\ simple
    /\ ret # <<>>
    /\ IsChineseToken(Last(ret))
    /\ Len(Last(ret)) >= 2
    /\ Last(ret) = SubSeq(chars, pos - Len(Last(ret)) + 1, pos)
    /\ Cardinality(DictWordLensAt(pos - Len(Last(ret)))) >= 2

\* C4: rule 3 keeps, of the chunks tied for the largest total length and
\* then for the largest average length, exactly those with the smallest
\* stddev; and cut of the scenario text with the scenario dictionary is
\* yan-jiu, sheng-ming, lai-yuan.
C4_SmallestStddev ==
    /\ (AtChinese /\ ~simple) =>
          LET chunks == create_chunks(chars, pos)
          IN Range(cascade(chunks, 3).chunks)
                = LowStddev(TopAvg(TopTotal(Range(chunks))))
    /\ (pc = "done" /\ ~simple /\ chars = S1Text /\ ScenarioDictLoaded) =>
          ret = << <<Yan, Jiu>>, <<Sheng, Ming>>, <<Lai, Yuan>> >>

\* cut of the scenario text has returned, with yan-jiu-sheng in the dictionary.
C4_Witness ==
    /\ pc = "done"
    /\ ~simple
    /\ chars = S1Text
    /\ <<Yan, Jiu, Sheng>> \in DOMAIN words
    /\ <<Sheng, Ming>> \in DOMAIN words
    /\ ret = << <<Yan, Jiu>>, <<Sheng, Ming>>, <<Lai, Yuan>> >>

\* C5: in complex mode, when exactly one enumerated chunk has the largest
\* total length, it is the only chunk left by rule 1 and by the whole
\* cascade, and the pass returns its first word.
C5_StrictMaxWins ==
    (AtChinese /\ ~simple) =>
        LET chunks == create_chunks(chars, pos)
            top == {i \in 1..Len(chunks) :
                      \A j \in 1..Len(chunks) :
                         total_word_len(chunks[j]) <= total_word_len(chunks[i])}
        IN Cardinality(top) = 1 =>
              LET c == chunks[CHOOSE i \in top : TRUE]
              IN /\ cascade(chunks, 1).chunks = <<c>>
                 /\ cascade(chunks, 4).chunks = <<c>>
                 /\ get_chinese_words_complex(chars, pos) = FirstWordResult(c, pos)

\* cut has just pushed the first word of a chunk that alone had the largest
\* total length, was not the first chunk enumerated, and had a larger stddev
\* and a smaller frequency score than a chunk with another first word.
C5_Witness ==
    /\ pc = "cut"
    /\ ~simple
    /\ ret # <<>>
    /\ IsChineseToken(Last(ret))
    /\ LET p == pos - Len(Last(ret))
           chunks == create_chunks(chars, p)
           top == {i \in 1..Len(chunks) :
                     \A j \in 1..Len(chunks) :
                        total_word_len(chunks[j]) <= total_word_len(chunks[i])}
       IN /\ Cardinality(top) = 1
          /\ 1 \notin top
          /\ \E i \in top, j \in 1..Len(chunks) :
                /\ FracCmp(stddev(chunks[j]), stddev(chunks[i])) = "Less"
                /\ FracCmp(word_freq(chunks[j]), word_freq(chunks[i])) = "Greater"
                /\ chunks[i][1].text = Last(ret)
                /\ chunks[j][1].text # Last(ret)

\* C6: every token pushed has at least one character, and the tokens are
\* slices of the text before the cursor, each starting at or after the end
\* of the one before.
C6_TokensAreSlices ==
    /\ \A i \in 1..Len(ret) : Len(ret[i]) >= 1
    /\ OrderedSlices(1, 0)

RECURSIVE TokensLen(_)
TokensLen(i) == IF i > Len(ret) THEN 0 ELSE Len(ret[i]) + TokensLen(i + 1)

\* cut returned Chinese and ASCII tokens and dropped some characters.
C6_Witness ==
    /\ pc = "done"
    /\ \E i \in 1..Len(ret) : IsChineseToken(ret[i]) /\ Len(ret[i]) >= 2
    /\ \E i \in 1..Len(ret) : IsAsciiToken(ret[i])
    /\ TokensLen(1) < Len(chars)

\* C7: cut of the tokens of cut(T) joined by single blanks returns the tokens
\* of cut(T).
C7_JoinIdempotent ==
    (pc = "done" /\ ~simple) =>
        cut_internal(Join(ret, 1), FALSE) = [returned |-> TRUE, ret |-> ret]

\* cut returned two Chinese tokens in a row, the first of two or more
\* characters with a shorter dictionary word as its prefix.
C7_Witness ==
    /\ pc = "done"
    /\ ~simple
    /\ \E i \in 1..(Len(ret) - 1) :
          /\ IsChineseToken(ret[i])
          /\ IsChineseToken(ret[i + 1])
          /\ Len(ret[i]) >= 2
          /\ SubSeq(ret[i], 1, 1) \in DOMAIN words

\* C8 as stated: where a dictionary word begins at the cursor, the total
\* length of cut_simple's chunk is at most that of cut's winning chunk, and
\* they are equal whenever rule 1 alone leaves a single chunk.  It is stated
\* for the cursors where every enumerated chunk holds dictionary words only,
\* so that a violation owes nothing to the placeholder word.
C8_ModeDominance ==
    (/\ AtChinese
     /\ create_simple_chunks(chars, pos) # <<>>
     /\ \A c \in Range(create_chunks(chars, pos)) :
           \A i \in 1..Len(c) : c[i].text # <<>>) =>
        LET s == total_word_len(max_by_key(create_simple_chunks(chars, pos)))
            chunks == create_chunks(chars, pos)
            win == cascade(chunks, 4).chunks[1]
        IN /\ s <= total_word_len(win)
           /\ Len(cascade(chunks, 1).chunks) = 1 => s = total_word_len(win)

\* C8 amended: where a dictionary word begins at the cursor, the total
\* length of cut_simple's chunk is at most that of cut's winning chunk, and
\* they are equal exactly when the winning chunk is a single word.
C8_ModeDominanceAmended ==
    (AtChinese /\ create_simple_chunks(chars, pos) # <<>>) =>
        LET s == total_word_len(max_by_key(create_simple_chunks(chars, pos)))
            chunks == create_chunks(chars, pos)
            win == cascade(chunks, 4).chunks[1]
        IN /\ s <= total_word_len(win)
           /\ (s = total_word_len(win)) <=> (Len(win) = 1)

\* After a first token, the cursor is where several chunks tie under rule 1,
\* the winner is a single word, and both modes pick that word.
C8_Witness ==
    /\ AtChinese
    /\ ret # <<>>
    /\ create_simple_chunks(chars, pos) # <<>>
    /\ LET chunks == create_chunks(chars, pos)
           win == cascade(chunks, 4).chunks[1]
       IN /\ Len(cascade(chunks, 1).chunks) >= 2
          /\ Len(win) = 1
          /\ total_word_len(max_by_key(create_simple_chunks(chars, pos)))
                = total_word_len(win)

\* C9: every chunk of create_chunks and of create_simple_chunks has 1, 2 or 3
\* words, each with a non-empty text and a len >= 1 that is the number of
\* characters of its text.
C9_ChunksWellFormed ==
    AtChinese =>
        \A chunk \in Range(create_chunks(chars, pos))
                     \cup Range(create_simple_chunks(chars, pos)) :
            /\ Len(chunk) \in 1..3
            /\ \A i \in 1..Len(chunk) :
                  /\ chunk[i].text # <<>>
                  /\ chunk[i].len >= 1
                  /\ chunk[i].len = Len(chunk[i].text)

\* C10: no pass panics; the cursor of the driver never exceeds the length of
\* the text; and create_chunks called on a Chinese character returns at
\* least one chunk, every take_high_test slice is in range, and the cursor
\* inside the enumerator never exceeds the length of the text.
C10_NoOutOfBounds ==
    /\ pc # "panicked"
    /\ pos <= Len(chars)
    /\ (AtChinese /\ ~simple) =>
          /\ create_chunks(chars, pos) # <<>>
          /\ \A rule \in 1..4 : ~cascade(create_chunks(chars, pos), rule).panic
          /\ \A q \in chunk_cursors(chars, pos) : q <= Len(chars)

\* After a first token, cut is on the last character of the text, a Chinese
\* character at which no dictionary word begins: the enumerator's cursor
\* reaches the end of the text.
C10_Witness ==
    /\ AtChinese
    /\ ~simple
    /\ ret # <<>>
    /\ pos + 1 = Len(chars)
    /\ DictWordLensAt(pos) = {}
    /\ Len(chars) \in chunk_cursors(chars, pos)

====
